---- MODULE Spec2Model ----
(***************************************************************************)
(* Model of nlp_agent.py: the NLPAgent dispatcher, the NLPField relevance  *)
(* test and extractors, and the recipe engine of NLPStructuralField.       *)
(*                                                                         *)
(* Text that the program inspects character by character (the answers of   *)
(* the question-answering model) is a sequence of one-character strings.   *)
(* Labels of the program (element kinds, directions, field names, slot     *)
(* names) are TLA+ strings.  A formatted message (an f-string) is the      *)
(* sequence of its fragments: the literal parts and the interpolated       *)
(* values, in order; text(m) is the string the program builds.             *)
(* The two inference models are outside the program: every call to one of  *)
(* them is a choice among the outcomes it can produce.                     *)
(***************************************************************************)
EXTENDS Integers, Sequences, FiniteSets, TLC

VARIABLES pc, prompt, recipe, field, step, parsed_items, args, value,
          calls, consulted, result, error, models, objects

vars == <<pc, prompt, recipe, field, step, parsed_items, args, value,
          calls, consulted, result, error, models, objects>>

(***************************************************************************)
(* Bounds of the model.                                                    *)
(***************************************************************************)
\* confidence scores of the classifier are k / ScoreMax, k in 0..ScoreMax
ScoreMax == 10

\* longest generated amount string handed to amount_breakdown
MaxAmountLen == 3

\* constructor calls made one after another in a process
MaxConstructions == 3

\* longest generated answer to the element-name question
MaxNameLen == 4

(***************************************************************************)
(* Python values.                                                          *)
(***************************************************************************)
\* what a callable hands back: a value, None, or an exception
None == [tag |-> "None"]

Some(v) == [tag |-> "value", value |-> v]

Raise(e) == [tag |-> "raise", error |-> e]

\* a dict parameter that was left at None
NoneItems == ("<None>" :> TRUE)

\* the return value None of NLPAgent.process_prompt
PyNone == ("<None>" :> TRUE)

\* no return value yet
Pending == ("<pending>" :> TRUE)

\* {**a, **b}: the keys of b win
Merge(a, b) == b @@ a

(***************************************************************************)
(* Characters and text.                                                    *)
(***************************************************************************)
Digits == {"0", "1", "2", "3", "4", "5", "6", "7", "8", "9"}

Letters == {"a", "b", "c", "d", "e", "f", "g", "h", "i", "j", "k", "l", "m",
            "n", "o", "p", "q", "r", "s", "t", "u", "v", "w", "x", "y", "z",
            "A", "B", "C", "D", "E", "F", "G", "H", "I", "J", "K", "L", "M",
            "N", "O", "P", "Q", "R", "S", "T", "U", "V", "W", "X", "Y", "Z"}

Whitespace == {" "}

RECURSIVE Str(_)
\* the string spelled by a sequence of characters (or of fragments)
Str(cs) == IF cs = <<>> THEN "" ELSE Head(cs) \o Str(Tail(cs))

\* the string a formatted message amounts to
text(fragments) == Str(fragments)

\* p is an initial part of s
IsPrefix(p, s) == Len(p) <= Len(s) /\ SubSeq(s, 1, Len(p)) = p

RECURSIVE Filter(_, _)
\* the characters of cs that belong to keep, in order
Filter(cs, keep) ==
    IF cs = <<>> THEN <<>>
    ELSE (IF Head(cs) \in keep THEN <<Head(cs)>> ELSE <<>>) \o Filter(Tail(cs), keep)

RECURSIVE RunEnd(_, _, _)
\* the first position at or after i where cs has no character of set
RunEnd(cs, i, set) ==
    IF i <= Len(cs) /\ cs[i] \in set THEN RunEnd(cs, i + 1, set) ELSE i

\* str.split(): the maximal runs of non-whitespace characters
RECURSIVE split(_)
split(cs) ==
    LET NonWs == {cs[k] : k \in 1..Len(cs)} \ Whitespace IN
    IF cs = <<>> THEN <<>>
    ELSE IF Head(cs) \in Whitespace THEN split(Tail(cs))
    ELSE LET e == RunEnd(cs, 1, NonWs) IN
         <<SubSeq(cs, 1, e - 1)>> \o split(SubSeq(cs, e, Len(cs)))

(***************************************************************************)
(* float(number) and its formatting.                                       *)
(* A float is kept as the decimal it denotes: sign, integer digits without *)
(* leading zeros, fraction digits without trailing zeros.  Python formats  *)
(* a float with the shortest decimal that reads back to it, which for the  *)
(* short decimals of the model is that same decimal.                       *)
(***************************************************************************)
RECURSIVE StripLeadingZeros(_)
StripLeadingZeros(ds) ==
    IF Len(ds) > 1 /\ Head(ds) = "0" THEN StripLeadingZeros(Tail(ds)) ELSE ds

RECURSIVE StripTrailingZeros(_)
StripTrailingZeros(ds) ==
    IF Len(ds) > 1 /\ ds[Len(ds)] = "0"
    THEN StripTrailingZeros(SubSeq(ds, 1, Len(ds) - 1)) ELSE ds

\* float(tok) for a token of the shape [-+]?\d*\.?\d+
float(tok) ==
    LET signed == tok # <<>> /\ Head(tok) \in {"-", "+"}
        body   == IF signed THEN Tail(tok) ELSE tok
        d      == RunEnd(body, 1, Digits)
        ip     == SubSeq(body, 1, d - 1)
        fp     == IF d <= Len(body) THEN SubSeq(body, d + 1, Len(body)) ELSE <<>>
    IN [neg  |-> signed /\ Head(tok) = "-",
        int  |-> StripLeadingZeros(IF ip = <<>> THEN <<"0">> ELSE ip),
        frac |-> StripTrailingZeros(IF fp = <<>> THEN <<"0">> ELSE fp)]

\* f'{number}' of a float
FloatStr(x) ==
    (IF x.neg THEN "-" ELSE "") \o Str(x.int) \o "." \o Str(x.frac)

(***************************************************************************)
(* NLPField.amount_breakdown                                               *)
(***************************************************************************)
\* the end (exclusive) of the match of [-+]?\d*\.?\d+ that starts at i, or 0
MatchEnd(amount, i) ==
    LET j  == IF amount[i] \in {"-", "+"} THEN i + 1 ELSE i
        d1 == RunEnd(amount, j, Digits)
        d2 == IF d1 <= Len(amount) /\ amount[d1] = "."
              THEN RunEnd(amount, d1 + 1, Digits) ELSE 0
    IN IF d2 > d1 + 1 THEN d2
       ELSE IF d1 > j THEN d1
       ELSE 0

\* (?<![a-zA-Z:]) at position i
LookBehindOk(amount, i) == i = 1 \/ amount[i - 1] \notin (Letters \cup {":"})

\* the start positions at which the pattern matches
MatchStarts(amount) ==
    {i \in 1..Len(amount) : LookBehindOk(amount, i) /\ MatchEnd(amount, i) # 0}

Min(S) == CHOOSE m \in S : \A n \in S : m <= n

\* re.findall(...)[0]: the leftmost match
FirstMatch(amount) ==
    LET i == Min(MatchStarts(amount)) IN SubSeq(amount, i, MatchEnd(amount, i) - 1)

\* the unit left empty instead of defaulting to meters
amount_breakdown_nodefault(amount) ==
    IF MatchStarts(amount) = {} THEN None
    ELSE Some(<<float(FirstMatch(amount)), Filter(amount, Letters)>>)

amount_breakdown(amount) ==
    IF MatchStarts(amount) = {} THEN None
    ELSE LET number == FirstMatch(amount)
             unit   == Filter(amount, Letters)
         IN Some(<<float(number), IF unit = <<>> THEN <<"m">> ELSE unit>>)

(***************************************************************************)
(* NLPModels: the class attributes of the singleton.  instance is 0 while  *)
(* the class has no attribute 'instance', else the identity of the object  *)
(* kept there; zero_shot and question_answerer count the pipelines loaded. *)
(***************************************************************************)
NoModels == [instance |-> 0, created |-> 0, zero_shot |-> 0, question_answerer |-> 0]

\* a new object and new pipelines at every call
NLPModels_new_always(cls) ==
    [instance          |-> cls.created + 1,
     created           |-> cls.created + 1,
     zero_shot         |-> cls.zero_shot + 1,
     question_answerer |-> cls.question_answerer + 1]

\* NLPModels.__new__: the class attributes after the call; the object it
\* returns is the instance kept there
NLPModels_new(cls) ==
    IF cls.instance = 0
    THEN [instance          |-> cls.created + 1,
          created           |-> cls.created + 1,
          zero_shot         |-> cls.zero_shot + 1,
          question_answerer |-> cls.question_answerer + 1]
    ELSE cls

Classes == {"NLPModels", "NLPModelsHelper", "NLPField", "NLPStructuralField", "NLPAgent"}

\* the object a constructor leaves, with the models it got from NLPModels()
Object(class, cls) == [class |-> class, nlp_models |-> cls.instance]

\* the class attributes and the objects after constructing one object of the
\* class; an NLPAgent first sets up its two fields
Construct(class, cls, objs) ==
    IF class = "NLPAgent"
    THEN LET c1 == NLPModels_new(cls)
             c2 == NLPModels_new(c1)
             c3 == NLPModels_new(c2)
         IN [models  |-> c3,
             objects |-> objs \o <<Object("NLPStructuralField", c1), Object("NLPField", c2),
                                   Object("NLPAgent", c3)>>]
    ELSE LET c1 == NLPModels_new(cls)
         IN [models |-> c1, objects |-> Append(objs, Object(class, c1))]

\* nlp_agent = NLPAgent() has run
AgentConstructed ==
    /\ models = Construct("NLPAgent", NoModels, <<>>).models
    /\ objects = Construct("NLPAgent", NoModels, <<>>).objects

(***************************************************************************)
(* NLPModelsHelper: the two inference models behind a threshold.           *)
(* Each operator is the set of outcomes the call can have.                 *)
(***************************************************************************)
\* zero_shot_threshold = 0.6, in units of 1 / 10
zero_shot_threshold == 6

Scores == 0..ScoreMax

\* scores[0] > zero_shot_threshold, scores being k / ScoreMax
zero_shot(text_, candidate_label) ==
    {score * 10 > zero_shot_threshold * ScoreMax : score \in Scores}

\* the label of the row with the greatest score: any of the candidates
zero_shot_multiple(text_, candidate_labels) ==
    {candidate_labels[i] : i \in DOMAIN candidate_labels}

\* answers the question-answering model is taken to give
QAAnswers == { <<>>,
               <<"B", "1", "2", "5", " ", "b", "e", "a", "m">>,
               <<"0", ".", "2", " ", "m">>,
               <<"o", "n", "e", " ", "m", "e", "t", "e", "r">> }

\* ['answer'] of the question-answering pipeline
question_answerer(question, context) == QAAnswers

(***************************************************************************)
(* NLPField and NLPStructuralField: vocabulary and extractors.             *)
(***************************************************************************)
elements == <<"wall", "slab", "beam", "column">>

directions == <<"up", "down", "front", "back", "left", "right">>

\* candidate if self.zero_shot(prompt, candidate) else None
ElementOf(candidate, relevant) == IF relevant THEN Some(candidate) ELSE None

which_element(prompt_) ==
    {ElementOf(candidate, relevant) :
        candidate \in zero_shot_multiple(prompt_, elements),
        relevant \in UNION {zero_shot(prompt_, c) : c \in zero_shot_multiple(prompt_, elements)}}

\* the whole answer is kept as the name
NameOf_whole(name) ==
    IF name = <<>> THEN None
    ELSE IF split(name) = <<>> THEN Raise("IndexError")
    ELSE Some(name)

\* None if name == '' else name.split()[0]
NameOf(name) ==
    IF name = <<>> THEN None
    ELSE IF split(name) = <<>> THEN Raise("IndexError")
    ELSE Some(split(name)[1])

element_name(prompt_, element) ==
    LET question == <<"Which is the name of the ", element, "?">> IN
    {NameOf(name) : name \in question_answerer(question, prompt_)}

\* an empty answer is taken as no answer
action_strict(prompt_, element, element_name_) ==
    LET question == <<"What should we do with the ", element, " ", element_name_, "?">> IN
    {IF a = <<>> THEN None ELSE Some(a) : a \in question_answerer(question, prompt_)}

action(prompt_, element, element_name_) ==
    LET question == <<"What should we do with the ", element, " ", element_name_, "?">> IN
    {Some(a) : a \in question_answerer(question, prompt_)}

overall_direction(prompt_) ==
    {Some(a) : a \in question_answerer(<<"To where?">>, prompt_)}

direction(prompt_) ==
    {Some(d) : d \in zero_shot_multiple(prompt_, directions)}

amount(prompt_) ==
    {Some(a) : a \in question_answerer(<<"By how much?">>, prompt_)}

(***************************************************************************)
(* NLPStructuralField.nlp_recipe: the steps in declared order.  args is    *)
(* the list process_one_step makes of it (a single name becomes a list of  *)
(* one); a step with no readable_value_name has no such key.               *)
(***************************************************************************)
Step(name, func, args_) == [name |-> name, func |-> func, args |-> args_]

Readable(step_data, readable) == step_data @@ ("readable_value_name" :> readable)

\* the amount is asked of the direction phrase instead of the action phrase
nlp_recipe_direction ==
    << Step("element", "which_element", <<"prompt">>),
       Step("element_name", "element_name", <<"prompt", "element">>),
       Step("action", "action", <<"prompt", "element", "element_name">>),
       Readable(Step("overall_direction", "overall_direction", <<"prompt">>), "direction"),
       Step("direction", "direction", <<"overall_direction">>),
       Step("amount", "amount", <<"overall_direction">>),
       Readable(Step("number_unit", "amount_breakdown", <<"amount">>), "amount") >>

nlp_recipe ==
    << Step("element", "which_element", <<"prompt">>),
       Step("element_name", "element_name", <<"prompt", "element">>),
       Step("action", "action", <<"prompt", "element", "element_name">>),
       Readable(Step("overall_direction", "overall_direction", <<"prompt">>), "direction"),
       Step("direction", "direction", <<"overall_direction">>),
       Step("amount", "amount", <<"action">>),
       Readable(Step("number_unit", "amount_breakdown", <<"amount">>), "amount") >>

\* the raw amount string is not discarded
parsed_items_to_discard_short ==
    {"prompt", "action", "overall_direction", "number_unit"}

parsed_items_to_discard ==
    {"prompt", "action", "overall_direction", "amount", "number_unit"}

\* func(*args): the outcomes of calling the step's extractor
Apply(func, a) ==
    CASE func = "which_element"     -> which_element(a[1])
      [] func = "element_name"      -> element_name(a[1], a[2])
      [] func = "action"            -> action(a[1], a[2], a[3])
      [] func = "overall_direction" -> overall_direction(a[1])
      [] func = "direction"         -> direction(a[1])
      [] func = "amount"            -> amount(a[1])
      [] func = "amount_breakdown"  -> {amount_breakdown(a[1])}

(***************************************************************************)
(* Narrative: summary, on_success, on_fail.                                *)
(***************************************************************************)
\* a missing key is passed over and the later keys are still told
summary_skip(items) ==
    IF "element" \notin DOMAIN items THEN <<>>
    ELSE <<"a ", items["element"]>>
         \o (IF "element_name" \notin DOMAIN items THEN <<>>
             ELSE <<" named ", Str(items["element_name"])>>)
         \o (IF "direction" \notin DOMAIN items THEN <<>>
             ELSE <<" is requested to be moved ", items["direction"]>>)
         \o (IF "number" \notin DOMAIN items THEN <<>>
             ELSE <<" by ", FloatStr(items["number"]), " ", Str(items["unit"])>>)

summary(items) ==
    IF "element" \notin DOMAIN items THEN <<>>
    ELSE <<"a ", items["element"]>> \o
    (IF "element_name" \notin DOMAIN items THEN <<>>
     ELSE <<" named ", Str(items["element_name"])>> \o
     (IF "direction" \notin DOMAIN items THEN <<>>
      ELSE <<" is requested to be moved ", items["direction"]>> \o
      (IF "number" \notin DOMAIN items THEN <<>>
       ELSE <<" by ", FloatStr(items["number"]), " ", Str(items["unit"])>>)))

on_success(items) ==
    <<"Hey! Perfect, I understood that ">> \o summary(items) \o <<". Doing my job now!">>

FailTail ==
    "Would you mind to rephrase it in a clear way for me and try again? Thanks in advance!"

\* the narrative of what was understood is never given
on_fail_sorry(item, items) ==
    <<"Sorry, ">>
    \o <<"I could not understand which ", item, " you are talking about. ">>
    \o <<FailTail>>

on_fail(item, items) ==
    (IF items = NoneItems THEN <<"Sorry, ">>
     ELSE <<"Hey! I understood ">> \o summary(items) \o <<". However, ">>)
    \o <<"I could not understand which ", item, " you are talking about. ">>
    \o <<FailTail>>

\* the answer is discarded with the intermediate slots
discard_items_answer(items) ==
    [key \in DOMAIN items \ (parsed_items_to_discard \cup {"answer"}) |-> items[key]]

discard_items(items) ==
    [key \in DOMAIN items \ parsed_items_to_discard |-> items[key]]

\* the unit of the amount is dropped for meters
parse_amount_meters(items) ==
    ("number" :> items["number_unit"][1]) @@ ("unit" :> <<"m">>) @@ items

parse_amount(items) ==
    ("number" :> items["number_unit"][1]) @@ ("unit" :> items["number_unit"][2]) @@ items

(***************************************************************************)
(* NLPAgent.setup_fields.  Only NLPStructuralField defines process_prompt. *)
(***************************************************************************)
fields ==
    << [name |-> "structural", other_names |-> <<>>, class |-> "NLPStructuralField"],
       [name |-> "MEP",
        other_names |-> <<"mechanical", "electrical", "plumbing", "fire protection">>,
        class |-> "NLPField"] >>

HasProcessPrompt(class) == class = "NLPStructuralField"

\* a call of zero_shot as the dispatcher sees it: the label and the outcome
Asked(label, relevant) == [label |-> label, relevant |-> relevant]

\* every name of the field is asked about, also after one was relevant
found_inside_all(f, prompt_) ==
    LET names == <<f.name>> \o f.other_names IN
    {[found |-> \E i \in DOMAIN names : r[i],
      asked |-> [i \in DOMAIN names |-> Asked(names[i], r[i])]] :
        r \in [DOMAIN names -> UNION {zero_shot(prompt_, names[i]) : i \in DOMAIN names}]}

\* the outcomes of found_inside: the answer and the zero_shot calls it made
found_inside(f, prompt_) ==
    LET names == <<f.name>> \o f.other_names IN
    {[found |-> TRUE, asked |-> [i \in 1..k |-> Asked(names[i], i = k)]] :
        k \in {n \in 1..Len(names) :
                 /\ TRUE \in zero_shot(prompt_, names[n])
                 /\ \A j \in 1..(n - 1) : FALSE \in zero_shot(prompt_, names[j])}}
    \cup
    {[found |-> FALSE, asked |-> [i \in DOMAIN names |-> Asked(names[i], FALSE)]] :
        k \in {n \in {1} : \A j \in 1..Len(names) : FALSE \in zero_shot(prompt_, names[j])}}

(***************************************************************************)
(* The program.                                                            *)
(***************************************************************************)
Prompts == {"Please, lower by 0.2 m the height of beam B125",
            "Displace column C27 one meter to the left, please"}

NoValue == [tag |-> "unset"]

Init ==
    /\ pc = "idle"
    /\ prompt = ""
    /\ recipe = nlp_recipe
    /\ field = 0
    /\ step = 0
    /\ parsed_items = NoneItems
    /\ args = <<>>
    /\ value = NoValue
    /\ calls = <<>>
    /\ consulted = <<>>
    /\ result = Pending
    /\ error = ""
    /\ AgentConstructed

\* the outcome of the 'request' check is not acted upon
AgentProcessPrompt_fallthrough ==
    /\ pc \in {"idle", "done"}
    /\ \E p \in Prompts : \E relevant \in zero_shot(p, "request") :
        /\ prompt' = p
        /\ consulted' = <<Asked("request", relevant)>>
        /\ parsed_items' = NoneItems
        /\ args' = <<>>
        /\ value' = NoValue
        /\ calls' = <<>>
        /\ step' = 0
        /\ error' = ""
        /\ result' = Pending
        /\ field' = 1
        /\ pc' = "fields"
    /\ UNCHANGED <<recipe, models, objects>>

\* NLPAgent.process_prompt up to the loop over the fields; called for the
\* first query or after the previous call returned
AgentProcessPrompt ==
    /\ pc \in {"idle", "done"}
    /\ \E p \in Prompts : \E relevant \in zero_shot(p, "request") :
        /\ prompt' = p
        /\ consulted' = <<Asked("request", relevant)>>
        /\ parsed_items' = NoneItems
        /\ args' = <<>>
        /\ value' = NoValue
        /\ calls' = <<>>
        /\ step' = 0
        /\ error' = ""
        /\ IF ~relevant
           THEN /\ result' = [success |-> FALSE,
                              answer |-> <<"Please, a request must be placed.">>]
                /\ field' = 0
                /\ pc' = "done"
           ELSE /\ result' = Pending
                /\ field' = 1
                /\ pc' = "fields"
    /\ UNCHANGED <<recipe, models, objects>>

\* one iteration of the loop over the fields; a match enters the field's
\* process_prompt, which NLPField does not have
FieldIteration ==
    /\ pc = "fields"
    /\ field <= Len(fields)
    /\ \E o \in found_inside(fields[field], prompt) :
        /\ consulted' = consulted \o o.asked
        /\ IF ~o.found
           THEN /\ field' = field + 1
                /\ UNCHANGED <<pc, parsed_items, step, error>>
           ELSE IF HasProcessPrompt(fields[field].class)
           THEN /\ parsed_items' = ("success" :> FALSE) @@ ("prompt" :> prompt)
                /\ step' = 1
                /\ pc' = "recipe"
                /\ UNCHANGED <<field, error>>
           ELSE /\ pc' = "raised"
                /\ error' = "AttributeError"
                /\ UNCHANGED <<field, parsed_items, step>>
    /\ UNCHANGED <<prompt, recipe, args, value, calls, result, models, objects>>

\* the loop over the fields ends without a match
NoFieldMatches ==
    /\ pc = "fields"
    /\ field > Len(fields)
    /\ result' = PyNone
    /\ pc' = "done"
    /\ UNCHANGED <<prompt, recipe, field, step, parsed_items, args, value,
                   calls, consulted, error, models, objects>>

\* a missing key resolves to the empty string
ResolveArgs_silent(items, names) ==
    Some([i \in DOMAIN names |->
            IF names[i] \in DOMAIN items THEN items[names[i]] ELSE <<>>])

\* args = [parsed_items[arg] for arg in args]: a missing key is a KeyError
ResolveArgs(items, names) ==
    IF \E i \in DOMAIN names : names[i] \notin DOMAIN items
    THEN Raise("KeyError")
    ELSE Some([i \in DOMAIN names |-> items[names[i]]])

\* the step's slot is stored in a dict rebuilt from the public slots only
process_one_step_rebuilt(value_name, items, out, readable_value_name) ==
    IF out.tag = "None"
    THEN Merge(items,
               "answer" :> on_fail(IF readable_value_name.tag = "None" THEN value_name
                                   ELSE readable_value_name.value,
                                   items))
    ELSE (value_name :> out.value) @@ discard_items(items)

\* the clarification names the step itself even when it has a readable name
process_one_step_ownname(value_name, items, out, readable_value_name) ==
    IF out.tag = "None"
    THEN Merge(items, "answer" :> on_fail(value_name, items))
    ELSE (value_name :> out.value) @@ items

\* process_one_step after func(*args) gave out: the dict it returns
process_one_step(value_name, items, out, readable_value_name) ==
    IF out.tag = "None"
    THEN Merge(items,
               "answer" :> on_fail(IF readable_value_name.tag = "None" THEN value_name
                                   ELSE readable_value_name.value,
                                   items))
    ELSE (value_name :> out.value) @@ items

\* one iteration of the loop over the recipe: process_one_step and the test
\* that the step left its slot
RecipeIteration ==
    /\ pc = "recipe"
    /\ step <= Len(recipe)
    /\ LET step_data == recipe[step]
           step_name == step_data.name
           readable_value_name ==
               IF "readable_value_name" \in DOMAIN step_data
               THEN Some(step_data.readable_value_name) ELSE None
           resolved == ResolveArgs(parsed_items, step_data.args)
       IN IF resolved.tag = "raise"
          THEN /\ pc' = "raised"
               /\ error' = resolved.error
               /\ UNCHANGED <<step, parsed_items, args, value, calls, result>>
          ELSE \E out \in Apply(step_data.func, resolved.value) :
                 /\ args' = resolved.value
                 /\ value' = out
                 /\ calls' = Append(calls, step_name)
                 /\ IF out.tag = "raise"
                    THEN /\ pc' = "raised"
                         /\ error' = out.error
                         /\ UNCHANGED <<step, parsed_items, result>>
                    ELSE LET items == process_one_step(step_name, parsed_items, out,
                                                       readable_value_name)
                         IN /\ parsed_items' = items
                            /\ error' = ""
                            /\ IF step_name \notin DOMAIN items
                               THEN /\ result' = discard_items(items)
                                    /\ pc' = "done"
                                    /\ UNCHANGED step
                               ELSE /\ step' = step + 1
                                    /\ UNCHANGED <<pc, result>>
    /\ UNCHANGED <<prompt, recipe, field, consulted, models, objects>>

\* the result is built without marking the success
Finalize_unmarked ==
    /\ pc = "recipe"
    /\ step > Len(recipe)
    /\ LET items == discard_items(parse_amount(parsed_items))
       IN /\ parsed_items' = items
          /\ result' = Merge(items, "answer" :> on_success(items))
    /\ pc' = "done"
    /\ UNCHANGED <<prompt, recipe, field, step, args, value, calls, consulted, error,
                   models, objects>>

\* after the loop over the recipe: success, parse_amount, discard, answer
Finalize ==
    /\ pc = "recipe"
    /\ step > Len(recipe)
    /\ LET succeeded == [parsed_items EXCEPT !["success"] = TRUE]
           items == discard_items(parse_amount(succeeded))
       IN /\ parsed_items' = items
          /\ result' = Merge(items, "answer" :> on_success(items))
    /\ pc' = "done"
    /\ UNCHANGED <<prompt, recipe, field, step, args, value, calls, consulted, error,
                   models, objects>>

Next ==
    \/ AgentProcessPrompt
    \/ FieldIteration
    \/ NoFieldMatches
    \/ RecipeIteration
    \/ Finalize

Spec == Init /\ [][Next]_vars

(***************************************************************************)
(* The engine run on a reordered recipe: the same program, started with    *)
(* the steps of nlp_recipe in another order.                               *)
(***************************************************************************)
Swap(seq, i, j) == [seq EXCEPT ![i] = seq[j], ![j] = seq[i]]

Reorderings ==
    {Swap(nlp_recipe, i, j) : i, j \in DOMAIN nlp_recipe}

InitRecipe ==
    /\ pc = "idle"
    /\ prompt = ""
    /\ recipe \in Reorderings
    /\ field = 0
    /\ step = 0
    /\ parsed_items = NoneItems
    /\ args = <<>>
    /\ value = NoValue
    /\ calls = <<>>
    /\ consulted = <<>>
    /\ result = Pending
    /\ error = ""
    /\ AgentConstructed

SpecRecipe == InitRecipe /\ [][Next]_vars

(***************************************************************************)
(* amount_breakdown on its own: called once on each amount string.         *)
(***************************************************************************)
AmountAlphabet == {"5", ".", "-", "m", ":", " "}

AmountExamples ==
    { <<"0", ".", "2", "m">>,
      <<"1", " ", "m">>,
      <<"o", "n", "e", " ", "m", "e", "t", "e", "r">>,
      <<"-", "3", ".", "5", "f", "t">>,
      <<"5">>,
      <<"+", "2", "0", ".", "5", "0">>,
      <<"B", "1", "2", "5">>,
      <<":", "3", "0">> }

AmountInputs ==
    AmountExamples \cup UNION {[1..n -> AmountAlphabet] : n \in 0..MaxAmountLen}

InitAmount ==
    /\ pc = "amount_breakdown"
    /\ prompt = ""
    /\ recipe = nlp_recipe
    /\ field = 0
    /\ step = 0
    /\ parsed_items = NoneItems
    /\ args \in {<<a>> : a \in AmountInputs}
    /\ value = NoValue
    /\ calls = <<>>
    /\ consulted = <<>>
    /\ result = Pending
    /\ error = ""
    /\ AgentConstructed

CallAmountBreakdown ==
    /\ pc = "amount_breakdown"
    /\ value' = amount_breakdown(args[1])
    /\ pc' = "returned"
    /\ UNCHANGED <<prompt, recipe, field, step, parsed_items, args, calls,
                   consulted, result, error, models, objects>>

NextAmount == CallAmountBreakdown

SpecAmount == InitAmount /\ [][NextAmount]_vars

(***************************************************************************)
(* summary on its own: called once on each mapping of slots.  number and   *)
(* unit come together, as parse_amount stores them.                        *)
(***************************************************************************)
\* the empty dict
EmptyItems == [key \in {} |-> ""]

SummaryInputs ==
    {e @@ n @@ d @@ a :
        e \in {EmptyItems} \cup {"element" :> x : x \in {"beam", "wall"}},
        n \in {EmptyItems} \cup {"element_name" :> x : x \in {<<"B", "1", "2", "5">>,
                                                             <<"W", "1", "5">>}},
        d \in {EmptyItems} \cup {"direction" :> x : x \in {"down", "front"}},
        a \in {EmptyItems} \cup {("number" :> float(x[1])) @@ ("unit" :> x[2]) :
                                    x \in {<< <<"0", ".", "2">>, <<"m">> >>,
                                           << <<"-", "3", ".", "5">>, <<"f", "t">> >>}}}

InitSummary ==
    /\ pc = "summary"
    /\ prompt = ""
    /\ recipe = nlp_recipe
    /\ field = 0
    /\ step = 0
    /\ parsed_items \in SummaryInputs
    /\ args = <<>>
    /\ value = NoValue
    /\ calls = <<>>
    /\ consulted = <<>>
    /\ result = Pending
    /\ error = ""
    /\ AgentConstructed

CallSummary ==
    /\ pc = "summary"
    /\ value' = Some(summary(parsed_items))
    /\ pc' = "returned"
    /\ UNCHANGED <<prompt, recipe, field, step, parsed_items, args, calls,
                   consulted, result, error, models, objects>>

NextSummary == CallSummary

SpecSummary == InitSummary /\ [][NextSummary]_vars

(***************************************************************************)
(* which_element and element_name on their own.  The question-answering    *)
(* pipeline answers with a span of the context that runs from the first    *)
(* character of a token to the last character of a token, or with the      *)
(* empty string: an answer neither starts nor ends with whitespace.        *)
(***************************************************************************)
NameAlphabet == {"B", "1", "m", " "}

NameExamples == { <<"B", "1", "2", "5", " ", "b", "e", "a", "m">>,
                  <<"B", "1", "2", "5">>,
                  <<"t", "h", "e", " ", "b", "e", "a", "m", " ", "B", "1", "2", "5">> }

NameAnswers ==
    NameExamples \cup
    {name \in UNION {[1..n -> NameAlphabet] : n \in 0..MaxNameLen} :
        name # <<>> => (name[1] \notin Whitespace /\ name[Len(name)] \notin Whitespace)}

InitExtract ==
    /\ \/ pc = "which_element" /\ prompt \in Prompts /\ args = <<>>
       \/ pc = "element_name" /\ prompt = "" /\ args \in {<<name>> : name \in NameAnswers}
    /\ recipe = nlp_recipe
    /\ field = 0
    /\ step = 0
    /\ parsed_items = NoneItems
    /\ value = NoValue
    /\ calls = <<>>
    /\ consulted = <<>>
    /\ result = Pending
    /\ error = ""
    /\ AgentConstructed

\* which_element(prompt): the argmax kind, then its own relevance check
CallWhichElement ==
    /\ pc = "which_element"
    /\ \E candidate \in zero_shot_multiple(prompt, elements) :
         \E relevant \in zero_shot(prompt, candidate) :
            /\ consulted' = <<Asked(candidate, relevant)>>
            /\ value' = ElementOf(candidate, relevant)
    /\ calls' = <<"which_element">>
    /\ pc' = "returned"
    /\ UNCHANGED <<prompt, recipe, field, step, parsed_items, args, result, error,
                   models, objects>>

\* element_name(prompt, element) once the question-answerer gave args[1]
CallElementName ==
    /\ pc = "element_name"
    /\ value' = NameOf(args[1])
    /\ calls' = <<"element_name">>
    /\ pc' = "returned"
    /\ UNCHANGED <<prompt, recipe, field, step, parsed_items, args, consulted, result,
                   error, models, objects>>

NextExtract == CallWhichElement \/ CallElementName

SpecExtract == InitExtract /\ [][NextExtract]_vars

(***************************************************************************)
(* Constructions on their own: objects of the five classes constructed one *)
(* after another in a fresh process.                                       *)
(***************************************************************************)
InitModels ==
    /\ pc = "constructing"
    /\ prompt = ""
    /\ recipe = nlp_recipe
    /\ field = 0
    /\ step = 0
    /\ parsed_items = NoneItems
    /\ args = <<>>
    /\ value = NoValue
    /\ calls = <<>>
    /\ consulted = <<>>
    /\ result = Pending
    /\ error = ""
    /\ models = NoModels
    /\ objects = <<>>

ConstructOne ==
    /\ pc = "constructing"
    /\ Len(objects) < MaxConstructions
    /\ \E class \in Classes :
        /\ models' = Construct(class, models, objects).models
        /\ objects' = Construct(class, models, objects).objects
    /\ UNCHANGED <<pc, prompt, recipe, field, step, parsed_items, args, value,
                   calls, consulted, result, error>>

NextModels == ConstructOne

SpecModels == InitModels /\ [][NextModels]_vars

(***************************************************************************)
(* Properties.                                                             *)
(***************************************************************************)
\* the structural field's process_prompt has returned
FieldReturned == pc = "done" /\ step >= 1

\* the name of the extractor step called last
LastCall == calls[Len(calls)]

\* the item a clarification asks about: 'which {item}'
NamesItem(answer, item) ==
    \E i \in 1..(Len(answer) - 1) :
        answer[i] = "I could not understand which " /\ answer[i + 1] = item

ExpectedItem(step_name) ==
    CASE step_name = "overall_direction" -> "direction"
      [] step_name = "number_unit"       -> "amount"
      [] OTHER                           -> step_name

\* C1: once a step's extractor returns None the engine has stopped: the
\* extractors called are those of the steps up to that one and of no later
\* step, the result has success = False, and its answer asks 'which' about
\* the step's readable name ('direction', 'amount') or else its own name.
C1_UnresolvedStepStops ==
    (pc \in {"recipe", "done", "raised"} /\ value.tag = "None") =>
        /\ pc = "done"
        /\ calls = [i \in 1..step |-> recipe[i].name]
        /\ result["success"] = FALSE
        /\ NamesItem(result["answer"], ExpectedItem(recipe[step].name))

C1_Witness ==
    /\ FieldReturned
    /\ value.tag = "None"
    /\ recipe[step].name = "number_unit"
    /\ NamesItem(result["answer"], "amount")

\* C2: a step whose question-answerer answer is the empty string (action,
\* overall_direction, amount) is unresolved: the engine stops at that step,
\* stores no slot for it and returns success = False with a clarification
\* naming the step.
C2_EmptyAnswerIsUnresolved ==
    (/\ pc \in {"recipe", "done"}
     /\ calls # <<>>
     /\ LastCall \in {"action", "overall_direction", "amount"}
     /\ value.tag = "value"
     /\ value.value = <<>>) =>
        /\ pc = "done"
        /\ LastCall \notin DOMAIN parsed_items
        /\ result["success"] = FALSE
        /\ NamesItem(result["answer"], ExpectedItem(LastCall))

\* C3: a prompt that passed the gate and was matched by a field (structural
\* or MEP, the first in declared order whose found_inside is true) comes
\* back from NLPAgent.process_prompt with that field's Result record.
C3_MatchedFieldReturnsResult ==
    (pc \in {"done", "raised"} /\ field \in DOMAIN fields) =>
        /\ pc = "done"
        /\ {"success", "answer"} \subseteq DOMAIN result

\* some initial fragments of the message spell exactly str
StartsWithText(message, str) ==
    \E k \in 0..Len(message) : text(SubSeq(message, 1, k)) = str

\* C4: the clarification of a failed run is the plain message, with no
\* 'I understood' narrative, when the first step (element) is unresolved and
\* no slot has been extracted; it is prefixed with the narrative
\* summary(slots so far) when a slot was extracted before the failing step.
C4_PlainMessageWhenNothingExtracted ==
    (FieldReturned /\ value.tag = "None") =>
        IF step = 1
        THEN /\ result["answer"][1] # "Hey! I understood "
             /\ NamesItem(result["answer"], "element")
        ELSE IsPrefix(<<"Hey! I understood ">> \o summary(parsed_items), result["answer"])

\* C5 as stated: element resolved and the element_name answer empty: the
\* Result has success = False, an answer starting with 'Sorry, I could not
\* understand which element_name you are talking about. ', and none of the
\* keys element_name, direction, number, unit.
C5_StartsWithSorry ==
    (FieldReturned /\ value.tag = "None" /\ recipe[step].name = "element_name") =>
        /\ result["success"] = FALSE
        /\ StartsWithText(result["answer"],
               "Sorry, I could not understand which element_name you are talking about. ")
        /\ DOMAIN result \cap {"element_name", "direction", "number", "unit"} = {}

\* C5 amended: element resolved and the element_name answer empty: the
\* Result has success = False, an answer starting with 'Hey! I understood a
\* {element}. However, I could not understand which element_name you are
\* talking about. ' ('a beam' for element 'beam'), and none of the keys
\* element_name, direction, number, unit.
C5_StartsWithNarrative ==
    (FieldReturned /\ value.tag = "None" /\ recipe[step].name = "element_name") =>
        /\ result["success"] = FALSE
        /\ StartsWithText(result["answer"],
               "Hey! I understood a " \o result["element"]
               \o ". However, I could not understand which element_name you are talking about. ")
        /\ result["element"] = "beam" =>
               StartsWithText(result["answer"],
                   "Hey! I understood a beam. However, I could not understand which element_name you are talking about. ")
        /\ DOMAIN result \cap {"element_name", "direction", "number", "unit"} = {}

C5_Witness ==
    /\ FieldReturned
    /\ value.tag = "None"
    /\ recipe[step].name = "element_name"
    /\ result["element"] = "beam"
    /\ args[2] = "beam"

\* C6 as stated: the Result of the structural field holds none of action,
\* overall_direction, amount, number_unit, and still holds the key prompt.
C6_PromptStaysVisible ==
    FieldReturned =>
        /\ DOMAIN result \cap {"action", "overall_direction", "amount", "number_unit"} = {}
        /\ "prompt" \in DOMAIN result

\* C6 amended: on the early-failure path and on the success path the step
\* that returns removes exactly prompt, action, overall_direction, amount and
\* number_unit: the Result holds none of them, and holds every other key of
\* the slots held before (with its value, success apart), the answer, and on
\* success number and unit.
C6_DiscardsExactly ==
    [][(pc = "recipe" /\ pc' = "done") =>
        LET discarded == {"prompt", "action", "overall_direction", "amount", "number_unit"}
            kept == DOMAIN parsed_items \ discarded
        IN /\ DOMAIN result' =
                  IF step > Len(recipe) THEN kept \cup {"number", "unit", "answer"}
                  ELSE kept \cup {"answer"}
           /\ \A key \in kept \ {"success"} : result'[key] = parsed_items[key]]_vars

C6_Witness ==
    /\ FieldReturned
    /\ step > Len(recipe)
    /\ DOMAIN result = {"success", "answer", "element", "element_name", "direction",
                        "number", "unit"}

\* C7: when all seven steps resolved the Result has success = True, number
\* and unit are the two parts of the number_unit value, and the answer is
\* 'Hey! Perfect, I understood that a {element} named {element_name} is
\* requested to be moved {direction} by {number} {unit}. Doing my job now!';
\* for element 'beam', element_name 'B125', direction 'down' and amount
\* '0.2 m' the Result holds exactly those, number 0.2 and unit 'm'.
C7_SuccessResult ==
    (FieldReturned /\ step > Len(recipe)) =>
        /\ Len(calls) = 7
        /\ result["success"] = TRUE
        /\ value = Some(<<result["number"], result["unit"]>>)
        /\ text(result["answer"]) =
               "Hey! Perfect, I understood that a " \o result["element"]
               \o " named " \o Str(result["element_name"])
               \o " is requested to be moved " \o result["direction"]
               \o " by " \o FloatStr(result["number"]) \o " " \o Str(result["unit"])
               \o ". Doing my job now!"
        /\ (/\ result["element"] = "beam"
            /\ result["element_name"] = <<"B", "1", "2", "5">>
            /\ result["direction"] = "down"
            /\ args = << <<"0", ".", "2", " ", "m">> >>) =>
               /\ result["number"] = [neg |-> FALSE, int |-> <<"0">>, frac |-> <<"2">>]
               /\ result["unit"] = <<"m">>
               /\ text(result["answer"]) =
                      "Hey! Perfect, I understood that a beam named B125 is requested to be moved down by 0.2 m. Doing my job now!"

C7_Witness ==
    /\ FieldReturned
    /\ step > Len(recipe)
    /\ result["success"] = TRUE
    /\ result["element"] = "beam"
    /\ result["element_name"] = <<"B", "1", "2", "5">>
    /\ result["direction"] = "down"
    /\ args = << <<"0", ".", "2", " ", "m">> >>

\* C8 as stated: whenever NLPAgent.process_prompt returns after a failure
\* (irrelevant prompt, no matching field, unresolved slot, malformed amount)
\* the value returned is a Result with success = False and a non-empty answer.
C8_EveryFailureHasAnswer ==
    (pc = "done" /\ (step = 0 \/ value.tag = "None")) =>
        /\ {"success", "answer"} \subseteq DOMAIN result
        /\ result["success"] = FALSE
        /\ text(result["answer"]) # ""

\* C8 amended: when the prompt passed the gate and no field matched,
\* NLPAgent.process_prompt returns None, with no answer; every other failure
\* that returns (irrelevant prompt, unresolved slot, malformed amount)
\* returns a Result with success = False and a non-empty answer.
C8_FailureHasAnswerOrNone ==
    (pc = "done" /\ (step = 0 \/ value.tag = "None")) =>
        IF field > Len(fields)
        THEN result = PyNone
        ELSE /\ {"success", "answer"} \subseteq DOMAIN result
             /\ result["success"] = FALSE
             /\ text(result["answer"]) # ""

C8_Witness ==
    /\ FieldReturned
    /\ value.tag = "None"
    /\ recipe[step].name = "number_unit"
    /\ result["success"] = FALSE
    /\ text(result["answer"]) # ""

\* t reads as an optional sign, digits, an optional point, and digits
IsNumber(t) ==
    \E sign \in 0..1, point \in 0..1, lead \in 0..Len(t) :
        /\ sign + lead + point < Len(t)
        /\ sign = 1 => t[1] \in {"-", "+"}
        /\ \A k \in (sign + 1)..(sign + lead) : t[k] \in Digits
        /\ point = 1 => t[sign + lead + 1] = "."
        /\ \A k \in (sign + lead + point + 1)..Len(t) : t[k] \in Digits

\* the numeric tokens of s, as <<first, last>> positions: the numbers that
\* are not immediately preceded by a letter or a colon
NumericTokens(s) ==
    {t \in (1..Len(s)) \X (1..Len(s)) :
        /\ t[1] <= t[2]
        /\ IsNumber(SubSeq(s, t[1], t[2]))
        /\ t[1] > 1 => s[t[1] - 1] \notin (Letters \cup {":"})}

\* the first number of s: the leftmost numeric token, taken as far as it goes
FirstNumber(s) ==
    LET t == CHOOSE t \in NumericTokens(s) :
                 \A u \in NumericTokens(s) :
                     t[1] < u[1] \/ (t[1] = u[1] /\ t[2] >= u[2])
    IN SubSeq(s, t[1], t[2])

IsLetter(c) == c \in Letters

FirstUnavailable(r) ==
    LET bad == {k \in DOMAIN r :
                  \E i \in DOMAIN r[k].args :
                      /\ r[k].args[i] # "prompt"
                      /\ r[k].args[i] \notin {r[j].name : j \in 1..(k - 1)}}
    IN IF bad = {} THEN 0 ELSE Min(bad)

\* C10 as stated: the engine never returns a Result for a recipe in which a
\* step's argument names a slot that no strictly earlier step produced.
C10_NeverReturnsResult ==
    (FirstUnavailable(recipe) # 0 /\ step >= 1) => pc # "done"

\* C10 amended: for a recipe in which a step's argument names a slot that no
\* strictly earlier step produced, the engine raises KeyError at that step
\* whenever it reaches it, without calling that step's extractor or the
\* extractor of any later step; it returns a Result only when an earlier
\* step was unresolved, and that Result has success = False.
C10_RaisesWhenReached ==
    /\ [](FirstUnavailable(recipe) # 0 =>
            /\ step <= FirstUnavailable(recipe)
            /\ Len(calls) < FirstUnavailable(recipe)
            /\ error = "KeyError" => (pc = "raised" /\ step = FirstUnavailable(recipe))
            /\ FieldReturned =>
                   /\ step < FirstUnavailable(recipe)
                   /\ value.tag = "None"
                   /\ result["success"] = FALSE)
    /\ [][(pc = "recipe" /\ step = FirstUnavailable(recipe)) =>
             (pc' = "raised" /\ error' = "KeyError" /\ calls' = calls)]_vars

C10_Witness ==
    /\ recipe[4].name = "direction"
    /\ recipe[5].name = "overall_direction"
    /\ pc = "raised"
    /\ error = "KeyError"
    /\ step = 4
    /\ Len(calls) = 3

\* C11: during a run of the structural field's process_prompt the slots
\* only grow: an iteration of the step loop that goes on to the next step
\* keeps every key with its value and adds the step's own, no result exists
\* while the loop runs, and the discard comes with the step that ends the
\* loop (the first unresolved step, or the completion), whose Result holds no
\* discarded name.
C11_SlotsOnlyGrow ==
    /\ [](pc = "recipe" =>
            /\ result = Pending
            /\ {"success", "prompt"} \cup {recipe[i].name : i \in 1..(step - 1)}
                   = DOMAIN parsed_items)
    /\ [][(pc = "recipe" /\ pc' = "recipe") =>
            /\ DOMAIN parsed_items' = DOMAIN parsed_items \cup {recipe[step].name}
            /\ recipe[step].name \notin DOMAIN parsed_items
            /\ \A key \in DOMAIN parsed_items : parsed_items'[key] = parsed_items[key]]_vars
    /\ [][(pc = "recipe" /\ pc' = "done") =>
            /\ result' # Pending
            /\ DOMAIN result' \cap parsed_items_to_discard = {}
            /\ (step <= Len(recipe)) =>
                   /\ DOMAIN parsed_items' = DOMAIN parsed_items \cup {"answer"}
                   /\ \A key \in DOMAIN parsed_items : parsed_items'[key] = parsed_items[key]]_vars

C11_Witness ==
    /\ pc = "recipe"
    /\ step = 7
    /\ DOMAIN parsed_items = {"success", "prompt", "element", "element_name", "action",
                              "overall_direction", "direction", "amount"}

\* C12: when the prompt does not pass the relevance check against 'request',
\* NLPAgent.process_prompt has returned {success: False, answer: 'Please, a
\* request must be placed.'} at once: 'request' is the only label asked
\* about, so no field's found_inside ran, and no extractor was called.
C12_IrrelevantPromptRejected ==
    (consulted # <<>> /\ consulted[1] = Asked("request", FALSE)) =>
        /\ pc = "done"
        /\ DOMAIN result = {"success", "answer"}
        /\ result["success"] = FALSE
        /\ text(result["answer"]) = "Please, a request must be placed."
        /\ Len(consulted) = 1
        /\ calls = <<>>
        /\ field = 0

C12_Witness ==
    /\ pc = "done"
    /\ consulted = <<Asked("request", FALSE)>>
    /\ text(result["answer"]) = "Please, a request must be placed."

\* the labels in the order the dispatcher may ask about them
LabelOrder ==
    <<"request", "structural", "MEP", "mechanical", "electrical", "plumbing",
      "fire protection">>

\* C13: after the gate the labels asked about are an initial part of
\* structural, MEP, mechanical, electrical, plumbing, fire protection, in
\* that order; only the last one asked about can be relevant, and then the
\* field it belongs to is the one matched and no further label is asked
\* about; when none is relevant the result is None and no extractor has been
\* called.
C13_FieldsConsultedInOrder ==
    (consulted # <<>> /\ consulted[1].relevant) =>
        /\ Len(consulted) <= Len(LabelOrder)
        /\ \A i \in DOMAIN consulted : consulted[i].label = LabelOrder[i]
        /\ \A i \in 2..(Len(consulted) - 1) : ~consulted[i].relevant
        /\ (Len(consulted) >= 2 /\ consulted[Len(consulted)].relevant) =>
               /\ pc # "fields"
               /\ field = IF Len(consulted) = 2 THEN 1 ELSE 2
        /\ (pc = "fields" /\ field = 2) => consulted[2] = Asked("structural", FALSE)
        /\ (pc = "done" /\ field > Len(fields)) =>
               /\ result = PyNone
               /\ calls = <<>>
               /\ Len(consulted) = Len(LabelOrder)
               /\ \A i \in 2..Len(consulted) : ~consulted[i].relevant
        /\ calls # <<>> => consulted = <<Asked("request", TRUE), Asked("structural", TRUE)>>

C13_Witness ==
    /\ pc = "raised"
    /\ error = "AttributeError"
    /\ Len(consulted) = 5
    /\ consulted[5] = Asked("electrical", TRUE)

\* the keys of the narrative in its order; number and unit go together
SummaryOrder == << {"element"}, {"element_name"}, {"direction"}, {"number", "unit"} >>

\* how many keys of the order a mapping holds before the first absent one
Told(m) ==
    IF \A i \in DOMAIN SummaryOrder : SummaryOrder[i] \subseteq DOMAIN m
    THEN Len(SummaryOrder)
    ELSE Min({i \in DOMAIN SummaryOrder : ~(SummaryOrder[i] \subseteq DOMAIN m)}) - 1

\* C14: summary(slots) tells element, element_name, direction and
\* number+unit in that order and stops at the first absent key, whatever
\* later keys are present: '' for no element, 'a {element}', then
\* ' named {element_name}', ' is requested to be moved {direction}',
\* ' by {number} {unit}'; and it is an initial part of the summary of every
\* mapping that adds the first absent key of that order.
C14_SummaryShortCircuit ==
    pc = "returned" =>
        LET m == parsed_items
            out == value.value
        IN /\ text(out) =
                  CASE Told(m) = 0 -> ""
                    [] Told(m) = 1 -> "a " \o m["element"]
                    [] Told(m) = 2 -> "a " \o m["element"] \o " named " \o Str(m["element_name"])
                    [] Told(m) = 3 -> "a " \o m["element"] \o " named " \o Str(m["element_name"])
                                      \o " is requested to be moved " \o m["direction"]
                    [] Told(m) = 4 -> "a " \o m["element"] \o " named " \o Str(m["element_name"])
                                      \o " is requested to be moved " \o m["direction"]
                                      \o " by " \o FloatStr(m["number"]) \o " " \o Str(m["unit"])
           /\ m = EmptyItems => text(out) = ""
           /\ m = ("element" :> "beam") => text(out) = "a beam"
           /\ m = ("element" :> "beam") @@ ("element_name" :> <<"B", "1", "2", "5">>) =>
                  text(out) = "a beam named B125"
           /\ \A ext \in SummaryInputs :
                  (/\ Told(m) < Len(SummaryOrder)
                   /\ DOMAIN ext = DOMAIN m \cup SummaryOrder[Told(m) + 1]
                   /\ \A key \in DOMAIN m : ext[key] = m[key]) =>
                      IsPrefix(out, summary(ext))

C14_Witness ==
    /\ pc = "returned"
    /\ DOMAIN parsed_items = {"element", "direction", "number", "unit"}
    /\ parsed_items["element"] = "beam"
    /\ text(value.value) = "a beam"

\* C15: whatever objects are constructed one after another, each of the
\* two pipelines is loaded at most once, on the first construction; every
\* object holds the one instance made then, and a construction that finds
\* the instance loads nothing.
C15_ModelsLoadedOnce ==
    /\ [](/\ models.zero_shot <= 1
          /\ models.question_answerer <= 1
          /\ objects # <<>> =>
                 /\ models.zero_shot = 1
                 /\ models.question_answerer = 1
                 /\ models.created = 1
                 /\ \A i \in DOMAIN objects : objects[i].nlp_models = objects[1].nlp_models)
    /\ [][objects # <<>> => models' = models]_vars

C15_Witness ==
    /\ pc = "constructing"
    /\ Len(objects) = 5
    /\ objects[1].class = "NLPModels"
    /\ objects[2].class = "NLPModelsHelper"
    /\ objects[5].class = "NLPAgent"
    /\ models.zero_shot = 1
    /\ models.question_answerer = 1

\* the first position of the digit run that holds position k of s
DigitRunStart(s, k) ==
    CHOOSE i \in 1..k :
        /\ \A j \in i..k : s[j] \in Digits
        /\ i > 1 => s[i - 1] \notin Digits

\* position k of s is a digit of a run that directly follows a letter or colon
InLetterRun(s, k) ==
    /\ s[k] \in Digits
    /\ DigitRunStart(s, k) > 1
    /\ s[DigitRunStart(s, k) - 1] \in (Letters \cup {":"})

\* C16: a digit run that directly follows a letter or a colon is never used
\* as the number, neither in whole nor in part: amount_breakdown is
\* unresolved for a string whose every digit lies in such a run, as for
\* 'B125' and ':30'.
C16_LetterRunNeverUsed ==
    pc = "returned" =>
        LET s == args[1] IN
        /\ (\A k \in 1..Len(s) : s[k] \in Digits => InLetterRun(s, k)) => value = None
        /\ s = <<"B", "1", "2", "5">> => value = None
        /\ s = <<":", "3", "0">> => value = None

\* the values the declared dataflow hands to a step's extractor
DeclaredArgs(step_name, items) ==
    CASE step_name = "element"           -> <<items["prompt"]>>
      [] step_name = "element_name"      -> <<items["prompt"], items["element"]>>
      [] step_name = "action"            -> <<items["prompt"], items["element"],
                                              items["element_name"]>>
      [] step_name = "overall_direction" -> <<items["prompt"]>>
      [] step_name = "direction"         -> <<items["overall_direction"]>>
      [] step_name = "amount"            -> <<items["action"]>>
      [] step_name = "number_unit"       -> <<items["amount"]>>

\* C17: in the recipe as declared every argument names 'prompt' or the slot
\* of a strictly earlier step, and the steps and their arguments are
\* element(prompt), element_name(prompt, element), action(prompt, element,
\* element_name), overall_direction(prompt), direction(overall_direction),
\* amount(action), number_unit(amount); in every run an extractor is called
\* with the values its earlier steps stored, in that order, and the value it
\* returns is what its own slot stores.
C17_RecipeDataflow ==
    /\ [](/\ FirstUnavailable(recipe) = 0
          /\ [i \in DOMAIN recipe |-> recipe[i].name] =
                 <<"element", "element_name", "action", "overall_direction",
                   "direction", "amount", "number_unit">>
          /\ [i \in DOMAIN recipe |-> recipe[i].args] =
                 << <<"prompt">>, <<"prompt", "element">>,
                    <<"prompt", "element", "element_name">>, <<"prompt">>,
                    <<"overall_direction">>, <<"action">>, <<"amount">> >>
          /\ pc = "recipe" => parsed_items["prompt"] = prompt)
    /\ [][(pc = "recipe" /\ calls' # calls) =>
             /\ calls' = Append(calls, recipe[step].name)
             /\ args' = DeclaredArgs(recipe[step].name, parsed_items)
             /\ value'.tag = "value" =>
                    /\ DOMAIN parsed_items' = DOMAIN parsed_items \cup {recipe[step].name}
                    /\ parsed_items'[recipe[step].name] = value'.value]_vars

C17_Witness ==
    /\ pc = "recipe"
    /\ step = 8
    /\ calls = <<"element", "element_name", "action", "overall_direction",
                 "direction", "amount", "number_unit">>
    /\ args = <<parsed_items["amount"]>>
    /\ parsed_items["amount"] # parsed_items["action"]
    /\ parsed_items["action"] # parsed_items["overall_direction"]

\* the first whitespace-delimited token of an answer that has one
FirstToken(name) ==
    LET i == Min({k \in 1..Len(name) : name[k] \notin Whitespace})
        j == Min({k \in i..Len(name) : k = Len(name) \/ name[k + 1] \in Whitespace})
    IN SubSeq(name, i, j)

CanBeUnresolved == {"element", "element_name", "number_unit"}

\* C19: whatever the models answer, the structural field stops as
\* unresolved only at element, element_name or number_unit, so a failure
\* answer asks about 'element', 'element_name' or 'amount' and never about
\* 'action' or 'direction'; the extractors of action, overall_direction,
\* direction and amount always return a value, which the step stores before
\* the engine goes on.
C19_OnlyThreeStepsUnresolved ==
    /\ [](/\ (pc \in {"recipe", "done"} /\ value.tag = "None") =>
                 /\ FieldReturned
                 /\ LastCall \in CanBeUnresolved
          /\ (FieldReturned /\ result["success"] = FALSE) =>
                 /\ value.tag = "None"
                 /\ recipe[step].name = LastCall
                 /\ LastCall \in CanBeUnresolved
                 /\ \E item \in {"element", "element_name", "amount"} :
                        /\ item = ExpectedItem(LastCall)
                        /\ NamesItem(result["answer"], item)
                 /\ ~NamesItem(result["answer"], "action")
                 /\ ~NamesItem(result["answer"], "direction")
                 /\ ~NamesItem(result["answer"], "overall_direction")
                 /\ ~NamesItem(result["answer"], "number_unit"))
    /\ [][(pc = "recipe" /\ calls' # calls /\ recipe[step].name \notin CanBeUnresolved) =>
             /\ recipe[step].name \in {"action", "overall_direction", "direction", "amount"}
             /\ value'.tag = "value"
             /\ pc' = "recipe"
             /\ step' = step + 1
             /\ recipe[step].name \in DOMAIN parsed_items'
             /\ parsed_items'[recipe[step].name] = value'.value]_vars

C19_Witness ==
    /\ FieldReturned
    /\ result["success"] = FALSE
    /\ LastCall = "number_unit"
    /\ parsed_items["action"] = <<>>
    /\ parsed_items["overall_direction"] = <<>>
    /\ parsed_items["amount"] = <<>>
    /\ NamesItem(result["answer"], "amount")

\* the slots a Result shows, in the order the recipe fills them
Chain == <<{"element"}, {"element_name"}, {"direction"}, {"number", "unit"}>>

\* the slots of the first n links of the chain
ChainPrefix(n) == UNION {Chain[i] : i \in 1..n}

\* C20: every Result the structural field returns has the keys success and
\* answer, and its other keys are the slots of an initial part of the chain
\* element, element_name, direction, number+unit (direction only with
\* element_name, element_name only with element, number and unit together
\* and only with direction); the chain is complete exactly when success is
\* true.
C20_ResultIsChainPrefix ==
    FieldReturned =>
        LET keys == DOMAIN result IN
        /\ {"success", "answer"} \subseteq keys
        /\ \E n \in 0..Len(Chain) : keys \ {"success", "answer"} = ChainPrefix(n)
        /\ "direction" \in keys => "element_name" \in keys
        /\ "element_name" \in keys => "element" \in keys
        /\ "number" \in keys <=> "unit" \in keys
        /\ "number" \in keys => "direction" \in keys
        /\ result["success"] \in BOOLEAN
        /\ result["success"] <=> ChainPrefix(Len(Chain)) \subseteq keys
        /\ result["success"] <=> {"number", "unit"} \subseteq keys

C20_Witness ==
    /\ FieldReturned
    /\ result["success"] = FALSE
    /\ DOMAIN result = {"success", "answer", "element", "element_name", "direction"}

====
